---- MODULE Spec2Model ----
(***************************************************************************)
(* Scenario branching engine of the chessboard planner.                    *)
(*                                                                         *)
(* Two zustand stores implement it: useDemoStore (lib/demo-store, with a   *)
(* history log) and useChessboardStore (store/chessboardStore.ts).  The    *)
(* variable impl says which of the two a behaviour runs; it never changes. *)
(*                                                                         *)
(* Numbers: money is an integer; a runway is a record, either Infinity or  *)
(* a finite value held in tenths of a month (13.6 months is 136).          *)
(* Optional values (cashInjection?: number, the undefined of an array read *)
(* past its end) are sequences of length 0 or 1.                           *)
(* Ids are tuples: `branch_${t}` is <<"branch", t>>, `${move.id}_${t}` is  *)
(* <<move.id, t>>, a library id such as 'hire_devs' is <<"hire_devs">>.    *)
(* Date fields (createdAt, updatedAt, lastUpdated, timestamp) and the      *)
(* display fields icon, badges, description, impact, source, category,     *)
(* color are written by the handlers and read by no operation; they are    *)
(* left out of the records.                                                *)
(*                                                                         *)
(* The page EnhancedChessboardGrid shows, over useDemoStore, the board or  *)
(* one of two comparisons of the branches with the baseline: the compare   *)
(* table (EnhancedCompareTable, a registry of nine metrics) or the visual  *)
(* comparison (VisualCompareChart).  What a comparison rendered last is    *)
(* held in table and chart.                                                *)
(*                                                                         *)
(* A side-by-side run gives useDemoStore (impl is "demo") and a            *)
(* useChessboardStore the same calls at the same clock values; the         *)
(* branches of the second store are held in branchesCS.                    *)
(***************************************************************************)
EXTENDS Integers, Sequences, FiniteSets, TLC

VARIABLES
    impl,            \* "demo" (useDemoStore) or "chess" (useChessboardStore)
    now,             \* the value Date.now() returns
    baseline,        \* chessboard.baseline
    branches,        \* chessboard.branches
    moveLibrary,     \* chessboard.moveLibrary
    selectedBranch,  \* chessboard.selectedBranch
    selectedNode,    \* chessboard.selectedNode
    history,         \* chessboard.history (useDemoStore only)
    lastCall,        \* the last call made to a store or a view and how it ended
    nCalls,          \* number of calls made so far
    compareMode,     \* EnhancedChessboardGrid: the compare table is shown
    visualMode,      \* EnhancedChessboardGrid: the visual comparison is shown
    expandedSections,\* EnhancedCompareTable: the sections shown expanded
    selectedMetric,  \* VisualCompareChart: the metric compared
    table,           \* what EnhancedCompareTable rendered last, null when not shown
    chart,           \* what VisualCompareChart rendered last, null when not shown
    branchesCS       \* side-by-side run: the branches of a useChessboardStore that
                     \* is given every call useDemoStore is given; undefined otherwise

vars == <<impl, now, baseline, branches, moveLibrary, selectedBranch,
          selectedNode, history, lastCall, nCalls, compareMode, visualMode,
          expandedSections, selectedMetric, table, chart, branchesCS>>

views == <<compareMode, visualMode, expandedSections, selectedMetric, table, chart>>

store == <<baseline, branches, moveLibrary, selectedBranch, selectedNode, history>>

(***************************************************************************)
(* Bounds of the model.                                                    *)
(***************************************************************************)
MaxClock == 1
MaxCalls == 5

(***************************************************************************)
(* Values.                                                                 *)
(***************************************************************************)
Null == <<>>
Undefined == <<>>
Some(x) == <<x>>

Infinity == [inf |-> TRUE, tenths |-> 0]
Finite(t) == [inf |-> FALSE, tenths |-> t]

\* x || 0 on an optional number
OrZero(opt) == IF opt = Undefined THEN 0 ELSE IF opt[1] = 0 THEN 0 ELSE opt[1]

\* x || y on numbers: 0 is falsy
OrElse(x, y) == IF x # 0 THEN x ELSE y

initialBaseline ==
    [runway |-> Finite(185), monthlyBurn |-> 130000, cashOnHand |-> 2400000,
     description |-> "Current financial state"]

Move(id, title, monthlyDelta, oneTime, cashInjection, ai, custom) ==
    [id |-> id, title |-> title, monthlyDelta |-> monthlyDelta, oneTime |-> oneTime,
     cashInjection |-> cashInjection, isAiRecommended |-> ai, isCustom |-> custom]

initialMoveLibrary ==
    << Move(<<"hire_devs">>, "Hire 3 Senior Developers", 45000, 15000, Undefined, FALSE, FALSE),
       Move(<<"cut_marketing">>, "Reduce Marketing Spend", -30000, 0, Undefined, FALSE, FALSE),
       Move(<<"raise_series_a">>, "Raise Series A", 25000, 100000, Some(5000000), FALSE, FALSE),
       Move(<<"automation_tools">>, "Automation & AI Tools", 5000, 25000, Undefined, TRUE, FALSE),
       Move(<<"enterprise_sales">>, "Enterprise Sales Team", 35000, 20000, Undefined, TRUE, FALSE),
       Move(<<"office_downsize">>, "Office Space Optimization", -12000, 8000, Undefined, FALSE, FALSE) >>

initialMoveLibraryCS ==
    << Move(<<"hire_devs">>, "Hire 3 Developers", 45000, 15000, Undefined, FALSE, FALSE),
       Move(<<"cut_marketing">>, "Reduce Marketing Spend", -30000, 0, Undefined, FALSE, FALSE),
       Move(<<"raise_series_a">>, "Raise Series A", 25000, 100000, Some(5000000), FALSE, FALSE),
       Move(<<"office_expansion">>, "Office Expansion", 8000, 50000, Undefined, FALSE, FALSE),
       Move(<<"automation_tools">>, "Automation Tools", 5000, 25000, Undefined, FALSE, FALSE) >>

(***************************************************************************)
(* Array helpers of the language.                                          *)
(***************************************************************************)
\* array.find(x => x.id === id): the first match, or undefined
Find(arr, id) ==
    LET matches == {i \in 1..Len(arr) : arr[i].id = id}
    IN  IF matches = {} THEN Undefined
        ELSE Some(arr[CHOOSE i \in matches : \A j \in matches : i <= j])

\* array[array.length - 1]: the last element, or undefined
LastOf(arr) == IF Len(arr) = 0 THEN Undefined ELSE Some(arr[Len(arr)])

\* array.slice(start, end), negative indices counted from the end
Slice(arr, start, end) ==
    LET n == Len(arr)
        from == IF start < 0 THEN (IF n + start < 0 THEN 0 ELSE n + start)
                ELSE (IF start > n THEN n ELSE start)
        to == IF end < 0 THEN (IF n + end < 0 THEN 0 ELSE n + end)
              ELSE (IF end > n THEN n ELSE end)
    IN  IF to <= from THEN <<>> ELSE SubSeq(arr, from + 1, to)

\* array.slice().reverse()
Reversed(arr) == [i \in 1..Len(arr) |-> arr[Len(arr) + 1 - i]]

\* array.filter(x => x.id !== id)
FilterOutId(arr, id) == SelectSeq(arr, LAMBDA x : x.id # id)

(***************************************************************************)
(* Helper functions of the stores.                                         *)
(***************************************************************************)
\* Math.floor in place of Math.round
Round1Floor(num, den) == (10 * num) \div den

\* Math.round(x * 10) / 10 for x = num / den, den > 0, in tenths.
\* Math.round rounds to the nearest integer, halves towards +Infinity; the
\* quotient is taken exactly (the double rounding of cashOnHand / monthlyBurn
\* is not modelled).
Round1(num, den) == (20 * num + den) \div (2 * den)

calculateRunway(monthlyBurn, cashOnHand) ==
    IF monthlyBurn <= 0 THEN Infinity ELSE Finite(Round1(cashOnHand, monthlyBurn))

NodeOf(move, newRunway, newMonthlyBurn, t) ==
    [id |-> <<move.id, t>>, title |-> move.title, monthlyDelta |-> move.monthlyDelta,
     oneTime |-> move.oneTime, cashInjection |-> move.cashInjection,
     runway |-> newRunway, monthlyBurn |-> newMonthlyBurn,
     isAiRecommended |-> move.isAiRecommended, isCustom |-> move.isCustom]

\* useDemoStore
createNodeFromMove(move, previousNode, base, t) ==
    LET prevBurn == IF previousNode # Undefined THEN previousNode[1].monthlyBurn
                    ELSE OrElse(base.monthlyBurn, initialBaseline.monthlyBurn)
        newMonthlyBurn == prevBurn + move.monthlyDelta
        cashAdded == OrZero(move.cashInjection) - move.oneTime
        newCashOnHand == OrElse(base.cashOnHand, initialBaseline.cashOnHand) + cashAdded
        newRunway == calculateRunway(newMonthlyBurn, newCashOnHand)
    IN  NodeOf(move, newRunway, newMonthlyBurn, t)

\* useChessboardStore
createNodeFromMoveCS(move, previousNode, t) ==
    LET previousBurn == IF previousNode # Undefined THEN previousNode[1].monthlyBurn
                        ELSE initialBaseline.monthlyBurn
        newMonthlyBurn == previousBurn + move.monthlyDelta
        newCashOnHand == (IF previousNode # Undefined THEN 0 ELSE initialBaseline.cashOnHand)
                         + OrZero(move.cashInjection) - move.oneTime
        newRunway == calculateRunway(newMonthlyBurn, newCashOnHand)
    IN  NodeOf(move, newRunway, newMonthlyBurn, t)

(***************************************************************************)
(* Inputs of the calls.                                                    *)
(***************************************************************************)
BranchId(t) == <<"branch", t>>
CustomId(t) == <<"custom", t>>
HistoryId(t) == <<"h", t>>

\* The ids a caller can hold: those of the branches that can have been
\* created so far.  The id of a branch that was not created, or that was
\* removed, is an unknown id.
BranchIdInputs == {BranchId(t) : t \in 0..now}

\* An id `custom_${t}` is unknown until a custom move is defined at time t.
MoveIdInputs ==
    {<<"hire_devs">>, <<"raise_series_a">>} \cup {CustomId(t) : t \in 0..now}

\* moveData: Omit<ChessboardMove, 'id' | 'createdAt'>
CustomMoveInputs ==
    { [title |-> "Layoffs", monthlyDelta |-> -200000, oneTime |-> 50000,
       cashInjection |-> Undefined, isAiRecommended |-> FALSE, isCustom |-> FALSE] }

\* moveData the specification of defineCustomMove rejects: a negative
\* oneTime, a negative cashInjection
InvalidCustomMoveInputs ==
    { [title |-> "Refund", monthlyDelta |-> 0, oneTime |-> -5000,
       cashInjection |-> Undefined, isAiRecommended |-> FALSE, isCustom |-> FALSE],
      [title |-> "Buyback", monthlyDelta |-> 1000, oneTime |-> 0,
       cashInjection |-> Some(-40000), isAiRecommended |-> FALSE, isCustom |-> FALSE] }

\* baselineUpdates: Partial<ChessboardBaseline>
BaselineUpdateInputs ==
    { [monthlyBurn |-> 0], [monthlyBurn |-> 100000, cashOnHand |-> 0] }

(***************************************************************************)
(* The record of the last call.                                            *)
(***************************************************************************)
\* nodesBefore: the length of the node list of the branch the call found
\* before it ran, -1 when it found none or takes no branch
NodesBefore(branchId) ==
    IF Find(branches, branchId) = Undefined THEN -1
    ELSE Len(Find(branches, branchId)[1].nodes)

\* moveKnown: the call takes a move id and the library has a move of that id
MoveKnown(moveId) == Find(moveLibrary, moveId) # Undefined

\* selBefore: the selected branch before the call ran.  A call leaves
\* branchesCS alone unless the run is side by side, where the action that
\* makes the call says what the second store does with it.
Handled(op, nodesBefore, moveKnown, outcome) ==
    /\ nCalls < MaxCalls
    /\ nCalls' = nCalls + 1
    /\ lastCall' = [op |-> op, nodesBefore |-> nodesBefore, moveKnown |-> moveKnown,
                    selBefore |-> selectedBranch, outcome |-> outcome]
    /\ IF branchesCS = Undefined THEN UNCHANGED branchesCS ELSE TRUE

\* No handler of the stores throws: every call returns normally.  The
\* stores do not write the state of the components.
Returned(op, nodesBefore, moveKnown) ==
    /\ Handled(op, nodesBefore, moveKnown, "returned")
    /\ UNCHANGED views

(***************************************************************************)
(* Initial state: the stores as created.                                   *)
(***************************************************************************)
Created ==
    /\ impl \in {"demo", "chess"}
    /\ now = 0
    /\ baseline = initialBaseline
    /\ branches = <<>>
    /\ moveLibrary = IF impl = "demo" THEN initialMoveLibrary ELSE initialMoveLibraryCS
    /\ selectedBranch = Null
    /\ selectedNode = Null
    /\ history = <<>>
    /\ lastCall = [op |-> "create", nodesBefore |-> -1, moveKnown |-> FALSE,
                   selBefore |-> Null, outcome |-> "returned"]
    /\ nCalls = 0
    /\ compareMode = FALSE
    /\ visualMode = FALSE
    /\ expandedSections = {"Liquidity & Cash", "Growth & Revenue"}
    /\ selectedMetric = "runway"
    /\ table = Null
    /\ chart = Null

\* one store runs alone
Init == Created /\ branchesCS = Undefined

\* useDemoStore runs with a useChessboardStore, as created, at its side
InitSideBySide == Created /\ impl = "demo" /\ branchesCS = Some(<<>>)

\* Date.now() advances between two calls
Tick ==
    /\ now < MaxClock
    /\ now' = now + 1
    /\ UNCHANGED <<impl, store, lastCall, nCalls, views>>
    /\ IF branchesCS = Undefined THEN UNCHANGED branchesCS ELSE TRUE

(***************************************************************************)
(* addChessboardMove                                                       *)
(***************************************************************************)
\* the early return after a history entry was already recorded
EarlyReturnRecorded ==
    /\ history' = Append(history, [id |-> HistoryId(now), action |-> <<"Added">>,
                                   data |-> [branchId |-> Null, moveId |-> Null, nodeId |-> Null]])
    /\ UNCHANGED <<baseline, branches, moveLibrary, selectedBranch, selectedNode>>

\* if (!move || !branch) return;
EarlyReturn == UNCHANGED store

\* the node put in front of the branch's nodes instead of after them
PrependNode(bs, branchId, newNode) ==
    [i \in 1..Len(bs) |->
        IF bs[i].id = branchId
        THEN [bs[i] EXCEPT !.nodes = <<newNode>> \o bs[i].nodes]
        ELSE bs[i]]

\* branches.map(b => b.id === branchId ? {...b, nodes: [...b.nodes, newNode]} : b)
AppendNode(bs, branchId, newNode) ==
    [i \in 1..Len(bs) |->
        IF bs[i].id = branchId
        THEN [bs[i] EXCEPT !.nodes = Append(bs[i].nodes, newNode)]
        ELSE bs[i]]

HistoryEntry(move, branch, branchId, moveId, newNode, t) ==
    [id |-> HistoryId(t),
     action |-> <<"Added", move.title, "to", branch.name>>,
     data |-> [branchId |-> branchId, moveId |-> moveId, nodeId |-> newNode.id]]

\* [entry, ...history], the order addSignal uses for signals
RecordHistoryFirst(h, entry) == <<entry>> \o h

\* history: [...history, entry]
RecordHistory(h, entry) == Append(h, entry)

addChessboardMove(branchId, moveId) ==
    LET move == Find(moveLibrary, moveId)
        branch == Find(branches, branchId)
    IN  /\ Returned("addChessboardMove", NodesBefore(branchId), MoveKnown(moveId))
        /\ IF move = Undefined \/ branch = Undefined
           THEN EarlyReturn
           ELSE LET lastNode == LastOf(branch[1].nodes)
                    newNode ==
                        IF impl = "demo"
                        THEN createNodeFromMove(move[1], lastNode, baseline, now)
                        ELSE createNodeFromMoveCS(move[1], lastNode, now)
                IN  /\ branches' = AppendNode(branches, branchId, newNode)
                    /\ history' =
                         IF impl = "demo"
                         THEN RecordHistory(history,
                                HistoryEntry(move[1], branch[1], branchId, moveId, newNode, now))
                         ELSE history
                    /\ UNCHANGED <<baseline, moveLibrary, selectedBranch, selectedNode>>
        /\ UNCHANGED <<impl, now>>

(***************************************************************************)
(* removeBranchMove                                                        *)
(***************************************************************************)
\* b.nodes.slice(1) in place of b.nodes.slice(0, -1)
RemoveFirstNode(bs, branchId) ==
    [i \in 1..Len(bs) |->
        IF bs[i].id = branchId
        THEN [bs[i] EXCEPT !.nodes = Slice(bs[i].nodes, 1, Len(bs[i].nodes))]
        ELSE bs[i]]

\* branches.map(b => b.id === branchId ? {...b, nodes: b.nodes.slice(0, -1)} : b)
RemoveLastNode(bs, branchId) ==
    [i \in 1..Len(bs) |->
        IF bs[i].id = branchId
        THEN [bs[i] EXCEPT !.nodes = Slice(bs[i].nodes, 0, -1)]
        ELSE bs[i]]

removeBranchMove(branchId) ==
    /\ Returned("removeBranchMove", NodesBefore(branchId), FALSE)
    /\ branches' = RemoveLastNode(branches, branchId)
    /\ UNCHANGED <<impl, now, baseline, moveLibrary, selectedBranch, selectedNode, history>>

(***************************************************************************)
(* addBranch, removeBranch, duplicateBranch, resetChessboard               *)
(***************************************************************************)
\* id: `branch_${Date.now()}`
NewBranchId(t) == BranchId(t)

addBranch ==
    LET newBranch == [id |-> NewBranchId(now),
                      name |-> <<"Scenario", Len(branches) + 1>>,
                      nodes |-> <<>>]
    IN  /\ Returned("addBranch", -1, FALSE)
        /\ branches' = Append(branches, newBranch)
        /\ UNCHANGED <<impl, now, baseline, moveLibrary, selectedBranch, selectedNode, history>>

\* removeBranch without the selectedBranch line of the update
removeBranchKeepSelection(branchId) ==
    /\ Returned("removeBranch", NodesBefore(branchId), FALSE)
    /\ branches' = FilterOutId(branches, branchId)
    /\ UNCHANGED <<impl, now, baseline, moveLibrary, selectedBranch, selectedNode, history>>

removeBranch(branchId) ==
    /\ Returned("removeBranch", NodesBefore(branchId), FALSE)
    /\ branches' = FilterOutId(branches, branchId)
    /\ selectedBranch' = IF selectedBranch = branchId THEN Null ELSE selectedBranch
    /\ UNCHANGED <<impl, now, baseline, moveLibrary, selectedNode, history>>

duplicateBranch(branchId) ==
    LET originalBranch == Find(branches, branchId)
    IN  /\ Returned("duplicateBranch", NodesBefore(branchId), FALSE)
        /\ IF originalBranch = Undefined
           THEN UNCHANGED store
           ELSE LET newBranch == [originalBranch[1] EXCEPT
                                    !.id = NewBranchId(now),
                                    !.name = Append(originalBranch[1].name, "(Copy)")]
                IN  /\ branches' = Append(branches, newBranch)
                    /\ UNCHANGED <<baseline, moveLibrary, selectedBranch, selectedNode, history>>
        /\ UNCHANGED <<impl, now>>

\* a reset to the state the store was created in
resetChessboardToInitial ==
    /\ Returned("resetChessboard", -1, FALSE)
    /\ branches' = <<>>
    /\ baseline' = initialBaseline
    /\ moveLibrary' = IF impl = "demo" THEN initialMoveLibrary ELSE initialMoveLibraryCS
    /\ selectedBranch' = Null
    /\ selectedNode' = Null
    /\ UNCHANGED <<impl, now, history>>

resetChessboard ==
    /\ Returned("resetChessboard", -1, FALSE)
    /\ branches' = <<>>
    /\ selectedBranch' = Null
    /\ selectedNode' = Null
    /\ UNCHANGED <<impl, now, baseline, moveLibrary, history>>

(***************************************************************************)
(* addCustomMove, updateBaseline, selectBranch, selectNode                 *)
(***************************************************************************)
\* {...moveData, id: `custom_${Date.now()}`}; useDemoStore adds isCustom: true
NewCustomMove(moveData, t, which) ==
    [moveData EXCEPT !.isCustom = IF which = "demo" THEN TRUE ELSE @]
        @@ [id |-> CustomId(t)]

addCustomMove(moveData) ==
    /\ Returned("addCustomMove", -1, FALSE)
    /\ moveLibrary' = Append(moveLibrary, NewCustomMove(moveData, now, impl))
    /\ UNCHANGED <<impl, now, baseline, branches, selectedBranch, selectedNode, history>>

\* {...state.baseline, ...baselineUpdates}
Merge(obj, updates) ==
    [f \in DOMAIN obj \cup DOMAIN updates |->
        IF f \in DOMAIN updates THEN updates[f] ELSE obj[f]]

updateBaseline(baselineUpdates) ==
    /\ Returned("updateBaseline", -1, FALSE)
    /\ baseline' = Merge(baseline, baselineUpdates)
    /\ UNCHANGED <<impl, now, branches, moveLibrary, selectedBranch, selectedNode, history>>

selectBranch(branchId) ==
    /\ Returned("selectBranch", NodesBefore(branchId), FALSE)
    /\ selectedBranch' = branchId
    /\ UNCHANGED <<impl, now, baseline, branches, moveLibrary, selectedNode, history>>

selectNode(nodeId) ==
    /\ Returned("selectNode", -1, FALSE)
    /\ selectedNode' = nodeId
    /\ UNCHANGED <<impl, now, baseline, branches, moveLibrary, selectedBranch, history>>

(***************************************************************************)
(* Queries                                                                 *)
(***************************************************************************)
\* moveLibrary.filter(move => move.isAiRecommended)
AiRecommendations(lib) == SelectSeq(lib, LAMBDA m : m.isAiRecommended)

getAiRecommendations ==
    /\ impl = "demo"
    /\ Returned("getAiRecommendations", -1, FALSE)
    /\ UNCHANGED <<impl, now, store>>

\* HistoryPanel: history.slice().reverse()
HistoryView(h) == Reversed(h)

listHistory ==
    /\ impl = "demo"
    /\ Returned("listHistory", -1, FALSE)
    /\ UNCHANGED <<impl, now, store>>

\* ids of the nodes on the board, the ones a click can select
NodeIdsOnBoard ==
    UNION {{branches[i].nodes[j].id : j \in 1..Len(branches[i].nodes)} :
             i \in 1..Len(branches)}

(***************************************************************************)
(* Numbers of the comparison views.  A number is finite, +Infinity,        *)
(* -Infinity or NaN.  A finite metric value is an integer count of the     *)
(* metric's unit, chosen so that the metric's arithmetic is exact:         *)
(*   runway 1/10 month; burn 1 dollar; mrr 1/10 dollar; cac 1/100 dollar;  *)
(*   ltv 1 dollar; burnMultiple 1/11400 (95000 * 12 / 100 = 11400);        *)
(*   nrr 1/10000; fxImpact 1/1000; churn 1/100000.                         *)
(* p10 and p90 are counted in hundredths of the metric's unit.  The        *)
(* rounding of the doubles is not modelled.                                *)
(***************************************************************************)
Fin(n) == [k |-> "fin", v |-> n]
PosInf == [k |-> "+inf", v |-> 0]
NegInf == [k |-> "-inf", v |-> 0]
NaN == [k |-> "nan", v |-> 0]

\* a runway of the store as a number
FromRunway(r) == IF r.inf THEN PosInf ELSE Fin(r.tenths)

NumNeg(a) ==
    CASE a.k = "fin" -> Fin(0 - a.v)
      [] a.k = "+inf" -> NegInf
      [] a.k = "-inf" -> PosInf
      [] OTHER -> NaN

NumAdd(a, b) ==
    IF a.k = "nan" \/ b.k = "nan" THEN NaN
    ELSE IF a.k = "fin" /\ b.k = "fin" THEN Fin(a.v + b.v)
    ELSE IF a.k = "fin" THEN b
    ELSE IF b.k = "fin" THEN a
    ELSE IF a.k = b.k THEN a
    ELSE NaN

NumSub(a, b) == NumAdd(a, NumNeg(b))

\* a * c for an integer c
NumScale(a, c) ==
    IF a.k = "nan" THEN NaN
    ELSE IF a.k = "fin" THEN Fin(a.v * c)
    ELSE IF c = 0 THEN NaN
    ELSE IF c > 0 THEN a
    ELSE NumNeg(a)

\* a < b; every comparison with NaN is false
NumLt(a, b) ==
    IF a.k = "nan" \/ b.k = "nan" THEN FALSE
    ELSE IF a.k = "fin" /\ b.k = "fin" THEN a.v < b.v
    ELSE IF a.k = "-inf" THEN b.k # "-inf"
    ELSE IF b.k = "+inf" THEN a.k # "+inf"
    ELSE FALSE

NumGt(a, b) == NumLt(b, a)
NumLe(a, b) == a.k # "nan" /\ b.k # "nan" /\ ~NumLt(b, a)
NumGe(a, b) == NumLe(b, a)

\* x || 0 on a number: 0 and NaN are falsy
NumOrZero(a) == IF a.k = "nan" \/ a = Fin(0) THEN Fin(0) ELSE a

\* Math.random(): the k-th draw of a render, in tenths (0..9), read from
\* the stream of the render, which repeats
Random(stream, k) == stream[((k - 1) % Len(stream)) + 1]

(***************************************************************************)
(* EnhancedCompareTable                                                    *)
(***************************************************************************)
Metric(id, section, thresholds) == [id |-> id, section |-> section, thresholds |-> thresholds]

Thresholds(good, warning, critical) ==
    Some([good |-> good, warning |-> warning, critical |-> critical])

\* thresholds in the metric's unit: 18 months is 180, 1.5x is 17100, ...
METRICS_REGISTRY ==
    << Metric("runway", "Liquidity & Cash", Thresholds(180, 120, 60)),
       Metric("burn", "Liquidity & Cash", Undefined),
       Metric("mrr", "Growth & Revenue", Undefined),
       Metric("cac", "Growth & Revenue", Thresholds(200000, 300000, 400000)),
       Metric("ltv", "Growth & Revenue", Undefined),
       Metric("burnMultiple", "Efficiency & Unit Economics", Thresholds(17100, 34200, 57000)),
       Metric("nrr", "Growth & Revenue", Thresholds(11000, 10500, 10000)),
       Metric("fxImpact", "Risk & Compliance", Undefined),
       Metric("churn", "Growth & Revenue", Thresholds(2000, 5000, 8000)) >>

METRIC_SECTIONS ==
    << "Liquidity & Cash", "Growth & Revenue", "Efficiency & Unit Economics",
       "Risk & Compliance" >>

\* useState(new Set(['Liquidity & Cash', 'Growth & Revenue']))
InitialExpanded == {"Liquidity & Cash", "Growth & Revenue"}

\* the baseline prop the page passes to the two comparison views
BaselineNode(b) == [cash |-> b.cashOnHand, burn |-> b.monthlyBurn, runway |-> b.runway]

\* base * (1 - factor), base * (1 + factor); factor in hundredths
variance(base, factor) ==
    [p10 |-> NumScale(base, 100 - factor), p90 |-> NumScale(base, 100 + factor)]

\* Math.random() > 0.7 ? 'high' : Math.random() > 0.4 ? 'medium' : 'low',
\* drawing from the k-th draw on; draws: the number of draws made
simulateMetrics(stream, k) ==
    IF Random(stream, k) > 7 THEN [confidence |-> "high", draws |-> 1]
    ELSE IF Random(stream, k + 1) > 4 THEN [confidence |-> "medium", draws |-> 2]
    ELSE [confidence |-> "low", draws |-> 2]

\* the variance factor of each metric's compute, in hundredths
VarianceFactor(id) ==
    CASE id = "runway" -> 15
      [] id = "burn" -> 8
      [] id = "mrr" -> 12
      [] id = "cac" -> 20
      [] id = "ltv" -> 25
      [] id = "burnMultiple" -> 18
      [] id = "nrr" -> 8
      [] id = "churn" -> 25

\* the value a metric's compute derives from the node and the baseline
MetricValue(id, node, base, stream, k) ==
    LET runway == FromRunway(IF "runway" \in DOMAIN node THEN node.runway ELSE base.runway)
        burn == IF "monthlyBurn" \in DOMAIN node THEN node.monthlyBurn ELSE base.burn
        dRunway == NumSub(runway, FromRunway(base.runway))
    IN  CASE id = "runway" -> runway
          [] id = "burn" -> Fin(burn)
          [] id = "mrr" -> Fin(950000 + (burn - base.burn) * 3)
          [] id = "cac" -> Fin(240000 + (base.burn - burn) * 5)
          [] id = "ltv" -> NumAdd(Fin(28000), NumScale(dRunway, 50))
          [] id = "burnMultiple" -> NumOrZero(Fin(burn))
          [] id = "nrr" -> NumAdd(Fin(11500), NumScale(dRunway, 5))
          [] id = "fxImpact" -> Fin(-30 + (Random(stream, k) - 5) * 4)
          [] id = "churn" -> NumSub(Fin(3500), NumScale(dRunway, 5))

\* what the metric's compute subtracts from the value to give the delta
DeltaBase(id, base) ==
    CASE id = "runway" -> FromRunway(base.runway)
      [] id = "burn" -> Fin(base.burn)
      [] id = "mrr" -> Fin(950000)
      [] id = "cac" -> Fin(240000)
      [] id = "ltv" -> Fin(28000)
      [] id = "burnMultiple" -> Fin(base.burn)
      [] id = "nrr" -> Fin(11500)
      [] id = "fxImpact" -> Fin(-30)
      [] id = "churn" -> Fin(3500)

\* the MetricResult a compute returns
MetricResult(id, value, base, sim) ==
    [value |-> value,
     delta |-> NumSub(value, DeltaBase(id, base)),
     p10 |-> IF id = "fxImpact" THEN Undefined
             ELSE Some(variance(value, VarianceFactor(id)).p10),
     p90 |-> IF id = "fxImpact" THEN Undefined
             ELSE Some(variance(value, VarianceFactor(id)).p90),
     confidence |-> sim.confidence,
     draws |-> IF id = "fxImpact" THEN sim.draws + 1 ELSE sim.draws]

\* metric.compute(node, baseline) of the metric of this id, its draws
\* starting at the k-th draw of the render (fxImpact draws its value first)
compute(id, node, base, stream, k) ==
    MetricResult(id, MetricValue(id, node, base, stream, k), base,
                 simulateMetrics(stream, IF id = "fxImpact" THEN k + 1 ELSE k))

\* the thresholds of a higher-better metric read the lower-better way
getThresholdIconInverted(value, metric) ==
    IF metric.thresholds = Undefined THEN Null
    ELSE LET t == metric.thresholds[1]
         IN  IF metric.id \in {"runway", "grossMargin", "nrr", "burnMultiple", "churn", "payback"}
             THEN Some(IF NumLe(value, Fin(t.good)) THEN "good"
                       ELSE IF NumLe(value, Fin(t.warning)) THEN "warning"
                       ELSE "critical")
             ELSE Null

\* the status getThresholdIcon shows (getThresholdColor colours by the same
\* comparisons), null when it shows none
getThresholdIcon(value, metric) ==
    IF metric.thresholds = Undefined THEN Null
    ELSE LET t == metric.thresholds[1]
             isHigherBetter == metric.id \in {"runway", "grossMargin", "nrr"}
             isLowerBetter == metric.id \in {"burnMultiple", "churn", "payback"}
         IN  IF isHigherBetter
             THEN Some(IF NumGe(value, Fin(t.good)) THEN "good"
                       ELSE IF NumGe(value, Fin(t.warning)) THEN "warning"
                       ELSE "critical")
             ELSE IF isLowerBetter
             THEN Some(IF NumLe(value, Fin(t.good)) THEN "good"
                       ELSE IF NumLe(value, Fin(t.warning)) THEN "warning"
                       ELSE "critical")
             ELSE Null

\* METRICS_REGISTRY.filter(metric => metric.section === section)
getMetricsBySection(section) == SelectSeq(METRICS_REGISTRY, LAMBDA m : m.section = section)

\* branch.nodes[branch.nodes.length - 1] || baseline
FinalNode(branch, base) ==
    IF LastOf(branch.nodes) = Undefined THEN base ELSE LastOf(branch.nodes)[1]

\* the cells of one table row in the order they are computed: the baseline
\* column (0), then one column per branch
RowJobs(metric, bs, base) ==
    <<[metric |-> metric, column |-> 0, node |-> base]>>
        \o [i \in 1..Len(bs) |-> [metric |-> metric, column |-> i, node |-> FinalNode(bs[i], base)]]

RECURSIVE RowsJobs(_, _, _)
RowsJobs(metrics, bs, base) ==
    IF metrics = <<>> THEN <<>>
    ELSE RowJobs(Head(metrics), bs, base) \o RowsJobs(Tail(metrics), bs, base)

\* METRIC_SECTIONS.map: the rows of the expanded sections, section by section
RECURSIVE SectionsJobs(_, _, _, _)
SectionsJobs(sections, expanded, bs, base) ==
    IF sections = <<>> THEN <<>>
    ELSE (IF Head(sections) \in expanded
          THEN RowsJobs(getMetricsBySection(Head(sections)), bs, base)
          ELSE <<>>)
         \o SectionsJobs(Tail(sections), expanded, bs, base)

\* a cell as rendered: the MetricResult and the status shown with it
Cell(job, data) ==
    [metric |-> job.metric.id, column |-> job.column,
     value |-> data.value, delta |-> data.delta,
     p10 |-> data.p10, p90 |-> data.p90,
     confidence |-> data.confidence,
     status |-> getThresholdIcon(data.value, job.metric)]

\* the cells in the order they are computed, each from the draws the cells
\* before it left
RECURSIVE RunJobs(_, _, _, _, _)
RunJobs(jobs, i, base, stream, k) ==
    IF i > Len(jobs) THEN <<>>
    ELSE LET Rest(data) == <<Cell(jobs[i], data)>>
                               \o RunJobs(jobs, i + 1, base, stream, k + data.draws)
         IN  Rest(compute(jobs[i].metric.id, jobs[i].node, base, stream, k))

\* one render of EnhancedCompareTable
EnhancedCompareTable(base, bs, expanded, stream) ==
    RunJobs(SectionsJobs(METRIC_SECTIONS, expanded, bs, base), 1, base, stream, 1)

\* the outcomes of Math.random() during one render: 0.5 at every draw, or
\* 0.8, 0.2, 0.3 in turn
RandomStreams == { <<5>>, <<8, 2, 3>> }

\* onClick={() => setCompareMode(true)}
showCompareTable ==
    /\ impl = "demo"
    /\ ~compareMode /\ ~visualMode
    /\ Handled("setCompareMode", -1, FALSE, "returned")
    /\ compareMode' = TRUE
    /\ expandedSections' = InitialExpanded
    /\ \E stream \in RandomStreams :
          table' = EnhancedCompareTable(BaselineNode(baseline), branches, InitialExpanded, stream)
    /\ UNCHANGED <<impl, now, store, visualMode, selectedMetric, chart>>

toggleSection(section) ==
    LET newExpanded == IF section \in expandedSections
                       THEN expandedSections \ {section}
                       ELSE expandedSections \cup {section}
    IN  /\ compareMode /\ ~visualMode
        /\ Handled("toggleSection", -1, FALSE, "returned")
        /\ expandedSections' = newExpanded
        /\ \E stream \in RandomStreams :
              table' = EnhancedCompareTable(BaselineNode(baseline), branches, newExpanded, stream)
        /\ UNCHANGED <<impl, now, store, compareMode, visualMode, selectedMetric, chart>>

\* onClose={() => setCompareMode(false)}: the table is unmounted
closeCompareTable ==
    /\ compareMode /\ ~visualMode
    /\ Handled("closeCompareTable", -1, FALSE, "returned")
    /\ compareMode' = FALSE
    /\ expandedSections' = InitialExpanded
    /\ table' = Null
    /\ UNCHANGED <<impl, now, store, visualMode, selectedMetric, chart>>

(***************************************************************************)
(* VisualCompareChart.  Values are counted in tenths of a month for the    *)
(* runway metric and in dollars for the burn and cash metrics.             *)
(***************************************************************************)
MetricKeys == {"runway", "burn", "cash"}

\* baseline[selectedMetric] || 0
BaselineValue(base, metric) ==
    NumOrZero(CASE metric = "runway" -> FromRunway(base.runway)
                [] metric = "burn" -> Fin(base.burn)
                [] metric = "cash" -> Fin(base.cash))

\* finalNode.runway || 0, finalNode.monthlyBurn || 0, finalNode.cashInjection || 0
NodeValue(finalNode, metric) ==
    NumOrZero(CASE metric = "runway" -> FromRunway(finalNode.runway)
                [] metric = "burn" -> Fin(finalNode.monthlyBurn)
                [] metric = "cash" -> Fin(OrZero(finalNode.cashInjection)))

getMetricData(base, bs, metric) ==
    LET baselineValue == BaselineValue(base, metric)
        branchData ==
            [i \in 1..Len(bs) |->
                IF LastOf(bs[i].nodes) = Undefined
                THEN [id |-> bs[i].id, value |-> baselineValue, delta |-> Fin(0),
                      name |-> bs[i].name]
                ELSE LET value == NodeValue(LastOf(bs[i].nodes)[1], metric)
                     IN  [id |-> bs[i].id, value |-> value,
                          delta |-> NumSub(value, baselineValue), name |-> bs[i].name]]
    IN  <<[id |-> <<"baseline">>, value |-> baselineValue, delta |-> Fin(0),
           name |-> <<"Baseline">>]>> \o branchData

\* the comparison of the 'worst' reduce used for 'best'
BetterWorst(current, best, metric) ==
    IF metric = "burn" THEN NumGt(current.value, best.value)
    ELSE NumLt(current.value, best.value)

\* selectedMetric === 'burn' ? current.value < best.value : current.value > best.value
Better(current, best, metric) ==
    IF metric = "burn" THEN NumLt(current.value, best.value)
    ELSE NumGt(current.value, best.value)

Worse(current, worst, metric) ==
    IF metric = "burn" THEN NumGt(current.value, worst.value)
    ELSE NumLt(current.value, worst.value)

\* items.reduce((best, current) => ... ? current : best) from position i on
RECURSIVE ReduceBest(_, _, _, _)
ReduceBest(items, i, best, metric) ==
    IF i > Len(items) THEN best
    ELSE ReduceBest(items, i + 1,
                    IF Better(items[i], best, metric) THEN items[i] ELSE best, metric)

RECURSIVE ReduceWorst(_, _, _, _)
ReduceWorst(items, i, worst, metric) ==
    IF i > Len(items) THEN worst
    ELSE ReduceWorst(items, i + 1,
                     IF Worse(items[i], worst, metric) THEN items[i] ELSE worst, metric)

\* changes.reduce((sum, change) => sum + change, 0) from position i on
RECURSIVE ReduceSum(_, _, _)
ReduceSum(items, i, sum) ==
    IF i > Len(items) THEN sum
    ELSE ReduceSum(items, i + 1, NumAdd(sum, items[i].delta))

\* data.filter(d => d.id !== 'baseline')
Scenarios(data) == SelectSeq(data, LAMBDA d : d.id # <<"baseline">>)

\* one render of VisualCompareChart with at least one branch; the average
\* change is the quotient sum / n, held as the pair
VisualCompareChart(base, bs, metric) ==
    LET data == getMetricData(base, bs, metric)
        scenarios == Scenarios(data)
    IN  [data |-> data,
         best |-> ReduceBest(scenarios, 2, scenarios[1], metric),
         worst |-> ReduceWorst(scenarios, 2, scenarios[1], metric),
         averageChange |-> [sum |-> ReduceSum(scenarios, 1, Fin(0)),
                            n |-> Len(scenarios)]]

\* onClick={() => setVisualMode(true)}.  With no branch the two reduce
\* calls without an initial value throw a TypeError during the render.
showVisualCompare ==
    /\ impl = "demo"
    /\ ~compareMode /\ ~visualMode
    /\ visualMode' = TRUE
    /\ selectedMetric' = "runway"
    /\ IF branches = <<>>
       THEN /\ Handled("setVisualMode", -1, FALSE, "TypeError")
            /\ chart' = Null
       ELSE /\ Handled("setVisualMode", -1, FALSE, "returned")
            /\ chart' = Some(VisualCompareChart(BaselineNode(baseline), branches, "runway"))
    /\ UNCHANGED <<impl, now, store, compareMode, expandedSections, table>>

\* onClick={() => setSelectedMetric(metric.key)}
setSelectedMetric(metric) ==
    /\ visualMode /\ chart # Null
    /\ Handled("setSelectedMetric", -1, FALSE, "returned")
    /\ selectedMetric' = metric
    /\ chart' = Some(VisualCompareChart(BaselineNode(baseline), branches, metric))
    /\ UNCHANGED <<impl, now, store, compareMode, visualMode, expandedSections, table>>

\* onClose={() => setVisualMode(false)}: the chart is unmounted
closeVisualCompare ==
    /\ visualMode /\ chart # Null
    /\ Handled("closeVisualCompare", -1, FALSE, "returned")
    /\ visualMode' = FALSE
    /\ selectedMetric' = "runway"
    /\ chart' = Null
    /\ UNCHANGED <<impl, now, store, compareMode, expandedSections, table>>

\* the page shows the board, with its buttons, only in neither mode
BoardShown == ~compareMode /\ ~visualMode

Next ==
    \/ Tick
    \/ \E b \in BranchIdInputs, m \in MoveIdInputs : addChessboardMove(b, m)
    \/ \E b \in BranchIdInputs : removeBranchMove(b)
    \/ addBranch
    \/ \E b \in BranchIdInputs : removeBranch(b)
    \/ \E b \in BranchIdInputs : duplicateBranch(b)
    \/ resetChessboard
    \/ \E d \in CustomMoveInputs : addCustomMove(d)
    \/ \E u \in BaselineUpdateInputs : updateBaseline(u)

Spec == Init /\ [][Next]_vars

\* The calls of the presentation layer that select and read
NextUI ==
    \/ Tick
    \/ \E b \in BranchIdInputs, m \in MoveIdInputs : addChessboardMove(b, m)
    \/ \E b \in BranchIdInputs : removeBranchMove(b)
    \/ addBranch
    \/ \E b \in BranchIdInputs : removeBranch(b)
    \/ resetChessboard
    \/ \E b \in BranchIdInputs \cup {Null} : selectBranch(b)
    \/ \E n \in NodeIdsOnBoard \cup {Null} : selectNode(n)
    \/ getAiRecommendations
    \/ listHistory

SpecUI == Init /\ [][NextUI]_vars

\* the ids a caller can take from the branches of the store
BranchIdsInStore == {branches[i].id : i \in 1..Len(branches)}

\* The store as the board drives it: selectBranch and selectNode are called
\* with null or with the id of a branch, or node, the store holds at the
\* time of the call.
NextSelect ==
    \/ Tick
    \/ \E b \in BranchIdInputs, m \in MoveIdInputs : addChessboardMove(b, m)
    \/ \E b \in BranchIdInputs : removeBranchMove(b)
    \/ addBranch
    \/ \E b \in BranchIdInputs : removeBranch(b)
    \/ \E b \in BranchIdInputs : duplicateBranch(b)
    \/ resetChessboard
    \/ \E b \in BranchIdsInStore \cup {Null} : selectBranch(b)
    \/ \E n \in NodeIdsOnBoard \cup {Null} : selectNode(n)

SpecSelect == Init /\ [][NextSelect]_vars

(***************************************************************************)
(* The side-by-side run: the handlers of useChessboardStore as functions   *)
(* of its branches (its baseline and its move library never change in the  *)
(* run), and the calls given to both stores.                               *)
(***************************************************************************)
addChessboardMoveCS(bs, branchId, moveId, t) ==
    LET move == Find(initialMoveLibraryCS, moveId)
        branch == Find(bs, branchId)
    IN  IF move = Undefined \/ branch = Undefined
        THEN bs
        ELSE AppendNode(bs, branchId,
                        createNodeFromMoveCS(move[1], LastOf(branch[1].nodes), t))

removeBranchMoveCS(bs, branchId) == RemoveLastNode(bs, branchId)

addBranchCS(bs, t) ==
    Append(bs, [id |-> NewBranchId(t), name |-> <<"Scenario", Len(bs) + 1>>,
                nodes |-> <<>>])

removeBranchCS(bs, branchId) == FilterOutId(bs, branchId)

duplicateBranchCS(bs, branchId, t) ==
    LET originalBranch == Find(bs, branchId)
    IN  IF originalBranch = Undefined
        THEN bs
        ELSE Append(bs, [originalBranch[1] EXCEPT
                           !.id = NewBranchId(t),
                           !.name = Append(originalBranch[1].name, "(Copy)")])

resetChessboardCS == <<>>

\* the ids of the moves both initial libraries hold, with the same
\* monthlyDelta, oneTime and cashInjection
CommonMoveIds ==
    {initialMoveLibrary[i].id : i \in 1..Len(initialMoveLibrary)}
        \cap {initialMoveLibraryCS[i].id : i \in 1..Len(initialMoveLibraryCS)}

NextSideBySide ==
    \/ Tick /\ UNCHANGED branchesCS
    \/ addBranch /\ branchesCS' = Some(addBranchCS(branchesCS[1], now))
    \/ \E b \in BranchIdInputs, m \in CommonMoveIds :
          /\ addChessboardMove(b, m)
          /\ branchesCS' = Some(addChessboardMoveCS(branchesCS[1], b, m, now))
    \/ \E b \in BranchIdInputs :
          /\ removeBranchMove(b)
          /\ branchesCS' = Some(removeBranchMoveCS(branchesCS[1], b))
    \/ \E b \in BranchIdInputs :
          /\ duplicateBranch(b)
          /\ branchesCS' = Some(duplicateBranchCS(branchesCS[1], b, now))
    \/ \E b \in BranchIdInputs :
          /\ removeBranch(b)
          /\ branchesCS' = Some(removeBranchCS(branchesCS[1], b))
    \/ resetChessboard /\ branchesCS' = Some(resetChessboardCS)

SpecSideBySide == InitSideBySide /\ [][NextSideBySide]_vars

\* The calls that define custom moves, of any moveData, and play them
NextCustom ==
    \/ Tick
    \/ addBranch
    \/ \E b \in BranchIdInputs, m \in MoveIdInputs : addChessboardMove(b, m)
    \/ \E d \in CustomMoveInputs \cup InvalidCustomMoveInputs : addCustomMove(d)

SpecCustom == Init /\ [][NextCustom]_vars

\* The page with its compare table
NextCompare ==
    \/ BoardShown /\ Tick
    \/ BoardShown /\ addBranch
    \/ BoardShown /\ \E b \in BranchIdInputs, m \in MoveIdInputs : addChessboardMove(b, m)
    \/ BoardShown /\ \E d \in CustomMoveInputs : addCustomMove(d)
    \/ showCompareTable
    \/ \E section \in {METRIC_SECTIONS[i] : i \in 1..Len(METRIC_SECTIONS)} : toggleSection(section)
    \/ closeCompareTable

SpecCompare == Init /\ [][NextCompare]_vars

\* The page with its visual comparison
NextVisual ==
    \/ BoardShown /\ Tick
    \/ BoardShown /\ addBranch
    \/ BoardShown /\ \E b \in BranchIdInputs, m \in MoveIdInputs : addChessboardMove(b, m)
    \/ BoardShown /\ \E b \in BranchIdInputs : duplicateBranch(b)
    \/ BoardShown /\ \E d \in CustomMoveInputs : addCustomMove(d)
    \/ showVisualCompare
    \/ \E metric \in MetricKeys : setSelectedMetric(metric)
    \/ closeVisualCompare

SpecVisual == Init /\ [][NextVisual]_vars

(***************************************************************************)
(* Properties.                                                             *)
(***************************************************************************)
BranchIdx == 1..Len(branches)

\* the position array.find stops at
FirstIdx(branchId) ==
    LET matches == {i \in BranchIdx : branches[i].id = branchId}
    IN  CHOOSE i \in matches : \A j \in matches : i <= j

\* the step is a call of op
Called(op) == nCalls' = nCalls + 1 /\ lastCall'.op = op

\* addChessboardMove(b, m) that resolves its branch and its move
AddResolves(b, m) ==
    /\ Called("addChessboardMove")
    /\ Find(moveLibrary, m) # Undefined
    /\ Find(branches, b) # Undefined
    /\ addChessboardMove(b, m)

\* the node such a call appended
AppendedNode(b) ==
    LET after == branches'[FirstIdx(b)].nodes
    IN  after[Len(after)]

\* C1: in every reachable state, for every branch and every position i >= 2
\* of its node list (i >= 1 counting from 0), the node's monthlyBurn is the
\* previous node's monthlyBurn plus the node's own monthlyDelta.
C1_BurnAccumulates ==
    \A i \in BranchIdx :
        \A j \in 2..Len(branches[i].nodes) :
            branches[i].nodes[j].monthlyBurn =
                branches[i].nodes[j - 1].monthlyBurn + branches[i].nodes[j].monthlyDelta

\* C2: the first node of a branch is derived from the store's current
\* baseline: when addChessboardMove appends to an empty branch, the node's
\* monthlyBurn is baseline.monthlyBurn + move.monthlyDelta, whatever the
\* baseline's monthlyBurn is (0 included).
C2_FirstNodeFromCurrentBaseline ==
    [][\A b \in BranchIdInputs, m \in MoveIdInputs :
          (AddResolves(b, m) /\ branches[FirstIdx(b)].nodes = <<>>)
              => AppendedNode(b).monthlyBurn =
                    baseline.monthlyBurn + Find(moveLibrary, m)[1].monthlyDelta]_vars

\* C4: the runway of every node addChessboardMove appends, at the first or
\* at a later position, is Runway(node.monthlyBurn,
\* baseline.cashOnHand + (move.cashInjection or 0) - move.oneTime).
C4_RunwayFromBaselineCash ==
    [][\A b \in BranchIdInputs, m \in MoveIdInputs :
          AddResolves(b, m)
              => LET move == Find(moveLibrary, m)[1]
                     node == AppendedNode(b)
                 IN  node.runway =
                        calculateRunway(node.monthlyBurn,
                            baseline.cashOnHand + OrZero(move.cashInjection) - move.oneTime)]_vars

\* C5: duplicateBranch(b) adds a branch with b's node sequence and an id
\* other than b's; and a call of addChessboardMove or removeBranchMove
\* addressed to the id of one branch of the list leaves the node sequence
\* of every other branch of the list as it was.
C5_DuplicateIsIndependent ==
    [][/\ \A b \in BranchIdInputs :
            (Called("duplicateBranch") /\ Find(branches, b) # Undefined /\ duplicateBranch(b))
                => /\ Len(branches') = Len(branches) + 1
                   /\ branches'[Len(branches')].nodes = Find(branches, b)[1].nodes
                   /\ branches'[Len(branches')].id # b
       /\ \A c \in BranchIdInputs :
            (\/ Called("addChessboardMove") /\ \E m \in MoveIdInputs : addChessboardMove(c, m)
             \/ Called("removeBranchMove") /\ removeBranchMove(c))
                => \A i \in BranchIdx, j \in BranchIdx :
                      (i # j /\ branches[j].id = c)
                          => branches'[i].nodes = branches[i].nodes]_vars

\* C6: branch ids are pairwise distinct in every reachable state, also
\* when two branches are created without the clock advancing.
C6_BranchIdsDistinct ==
    \A i \in BranchIdx, j \in BranchIdx :
        i # j => branches[i].id # branches[j].id

\* the nodes on the board
NodesOnBoard ==
    UNION {{branches[i].nodes[j] : j \in 1..Len(branches[i].nodes)} : i \in BranchIdx}

\* r (in tenths) is num / den rounded to one decimal place
IsRounded1(r, num, den) ==
    /\ 2 * r * den - den <= 20 * num
    /\ 20 * num <= 2 * r * den + den

BurnInputs == {-70000, -1, 0, 1, 3, 20, 130000, 155000, 175000}
CashInputs == {-15000, -1, 0, 1, 10, 2385000, 2400000, 7300000}

\* calculateRunway on the inputs: +Infinity for burn <= 0, cash / burn
\* rounded to one decimal place for burn > 0
RunwayAsSpecified ==
    \A burn \in BurnInputs, cash \in CashInputs :
        LET r == calculateRunway(burn, cash)
        IN  IF burn <= 0 THEN r = Infinity
            ELSE ~r.inf /\ IsRounded1(r.tenths, cash, burn)

\* C3: calculateRunway(burn, cash) is +Infinity for every burn <= 0 and any
\* cash, and cash / burn rounded to one decimal place for every burn > 0;
\* every node on the board whose burn is <= 0 was created, by a call that
\* returned, with runway +Infinity, and every other node has a finite runway.
C3_Runway ==
    /\ RunwayAsSpecified
    /\ \A node \in NodesOnBoard :
          IF node.monthlyBurn <= 0 THEN node.runway = Infinity ELSE ~node.runway.inf
    /\ lastCall.outcome = "returned"

\* a move has just driven a branch's burn to zero or below
C3_Witness ==
    /\ lastCall.op = "addChessboardMove"
    /\ \E node \in NodesOnBoard : node.monthlyBurn <= 0 /\ node.runway = Infinity
    /\ \E node \in NodesOnBoard : node.monthlyBurn > 0 /\ ~node.runway.inf

\* array.slice(0, -1) said without slice: all but the last element
AllButLast(arr) == IF arr = <<>> THEN <<>> ELSE [k \in 1..(Len(arr) - 1) |-> arr[k]]

\* C7: removeBranchMove returns without an error; it leaves a branch with
\* no nodes empty, and removes exactly the last node of a branch that has
\* nodes.
C7_RemoveLastOrNothing ==
    [][\A b \in BranchIdInputs :
          (Called("removeBranchMove") /\ removeBranchMove(b))
              => /\ lastCall'.outcome = "returned"
                 /\ Len(branches') = Len(branches)
                 /\ \A i \in BranchIdx :
                       branches[i].id = b
                           => branches'[i].nodes = AllButLast(branches[i].nodes)]_vars

\* removeBranchMove has just run on a branch without nodes, which is still
\* there and still empty
C7_Witness ==
    /\ lastCall.op = "removeBranchMove"
    /\ lastCall.nodesBefore = 0
    /\ \E i \in BranchIdx : branches[i].nodes = <<>>

\* a call that changes the store: one of the seven mutating operations,
\* addressed to ids that resolve
MutatingCall ==
    \/ \E b \in BranchIdInputs, m \in MoveIdInputs : AddResolves(b, m)
    \/ \E b \in BranchIdInputs :
          /\ Find(branches, b) # Undefined
          /\ \/ Called("removeBranchMove") /\ removeBranchMove(b)
             \/ Called("removeBranch") /\ removeBranch(b)
             \/ Called("duplicateBranch") /\ duplicateBranch(b)
    \/ Called("addBranch") /\ addBranch
    \/ Called("resetChessboard") /\ resetChessboard
    \/ Called("addCustomMove") /\ \E d \in CustomMoveInputs : addCustomMove(d)

QueryCall ==
    \/ Called("getAiRecommendations") /\ getAiRecommendations
    \/ Called("listHistory") /\ listHistory

\* C8: in the store that keeps a history, the history grows by exactly one
\* entry on every mutating call and by none on a query.
C8_HistoryCountsCalls ==
    [][impl = "demo"
          => /\ MutatingCall => Len(history') = Len(history) + 1
             /\ QueryCall => Len(history') = Len(history)]_vars

IsPrefix(s, t) ==
    /\ Len(s) <= Len(t)
    /\ \A k \in 1..Len(s) : t[k] = s[k]

\* view lists the entries of h in the reverse of the order they were appended
NewestFirst(view, h) ==
    /\ Len(view) = Len(h)
    /\ \A k \in 1..Len(h) : view[k] = h[Len(h) + 1 - k]

\* C9: across every transition the history before is a prefix of the
\* history after, entries unchanged (also across resetChessboard and
\* removeBranch), and the history view lists the entries newest first: its
\* k-th entry is the k-th last one appended.
C9_HistoryAppendOnly ==
    [][/\ IsPrefix(history, history')
       /\ NewestFirst(HistoryView(history), history)
       /\ NewestFirst(HistoryView(history'), history')]_vars

\* a history of several different entries has just survived a reset
C9_Witness ==
    /\ impl = "demo"
    /\ lastCall.op = "resetChessboard"
    /\ Len(history) >= 2
    /\ history[1] # history[2]
    /\ HistoryView(history)[1] = history[Len(history)]

\* the step is a call of addChessboardMove with the id of no branch or the
\* id of no move
AddUnresolved ==
    /\ Called("addChessboardMove")
    /\ lastCall'.nodesBefore = -1 \/ ~lastCall'.moveKnown

C11_RemoveBranchClearsSelection ==
    [][\A b \in BranchIdInputs :
          (Called("removeBranch") /\ removeBranch(b))
              => LET kept == {i \in BranchIdx : branches[i].id # b}
                 IN  /\ \A j \in 1..Len(branches') : branches'[j].id # b
                     /\ selectedBranch' = IF selectedBranch = b THEN Null ELSE selectedBranch
                     /\ Len(branches') = Cardinality(kept)
                     /\ \A i \in kept :
                           \E j \in 1..Len(branches') :
                              /\ branches'[j] = branches[i]
                              /\ j = Cardinality({k \in kept : k <= i})]_vars

\* removeBranch has just removed the selected branch, which had nodes, and
\* another branch is still on the board
C11_Witness ==
    /\ lastCall.op = "removeBranch"
    /\ lastCall.nodesBefore >= 1
    /\ lastCall.selBefore # Null
    /\ selectedBranch = Null
    /\ branches # <<>>

BranchOps ==
    {"addBranch", "addChessboardMove", "removeBranchMove", "duplicateBranch",
     "removeBranch", "resetChessboard"}

\* C12: resetChessboard leaves the branch list empty and the baseline and
\* the move library, custom moves included, as they were; and no branch
\* operation changes the baseline.
C12_ResetKeepsBaselineAndLibrary ==
    [][/\ Called("resetChessboard")
            => /\ branches' = <<>>
               /\ baseline' = baseline
               /\ moveLibrary' = moveLibrary
       /\ (\E op \in BranchOps : Called(op)) => baseline' = baseline]_vars

\* a reset has just cleared a board that had nodes, under an updated
\* baseline and a library with a custom move
C12_Witness ==
    /\ lastCall.op = "resetChessboard"
    /\ branches = <<>>
    /\ baseline # initialBaseline
    /\ \E i \in 1..Len(moveLibrary) : moveLibrary[i].id[1] = "custom"
    /\ history # <<>>

\* what defineCustomMove validates
ValidMoveData(d) ==
    /\ d.oneTime >= 0
    /\ d.cashInjection = Undefined \/ d.cashInjection[1] >= 0

\* C13: addCustomMove rejects, with a ValidationError and the move library
\* unchanged, every moveData whose oneTime or cashInjection is negative;
\* every move in the library is valid.
C13_InvalidMoveRejected ==
    [][/\ \A d \in InvalidCustomMoveInputs :
            (Called("addCustomMove") /\ addCustomMove(d))
                => /\ lastCall'.outcome = "ValidationError"
                   /\ moveLibrary' = moveLibrary
       /\ \A i \in 1..Len(moveLibrary') : ValidMoveData(moveLibrary'[i])]_vars

TableIdx == 1..Len(table)

\* the baseline cell of the row a cell is in
BaselineCellOf(i) ==
    table[CHOOSE j \in TableIdx : table[j].metric = table[i].metric /\ table[j].column = 0]

\* C14: with no branches the compare table holds, for every metric of the
\* registry in an expanded section, exactly one result, the baseline's, and
\* its delta is 0, whatever Math.random() returned.
C14_BaselineDeltasZero ==
    (compareMode /\ branches = <<>>)
        => /\ \A m \in 1..Len(METRICS_REGISTRY) :
                 METRICS_REGISTRY[m].section \in expandedSections
                     => Cardinality({i \in TableIdx :
                                        table[i].metric = METRICS_REGISTRY[m].id}) = 1
           /\ \A i \in TableIdx : table[i].column = 0 /\ table[i].delta = Fin(0)

\* C15: in the compare table, the delta of every branch cell is the cell's
\* value minus the value of the baseline cell of the same row.
C15_DeltaIsValueMinusBaseline ==
    compareMode
        => \A i \in TableIdx :
              table[i].column >= 1
                  => table[i].delta = NumSub(table[i].value, BaselineCellOf(i).value)

HigherBetter == {"runway", "nrr"}
LowerBetter == {"burnMultiple", "churn"}

\* the metric of the registry with this id
MetricOf(id) ==
    METRICS_REGISTRY[CHOOSE m \in 1..Len(METRICS_REGISTRY) : METRICS_REGISTRY[m].id = id]

\* the status the thresholds t give a value, read the higher-better way
StatusHigher(value, t) ==
    IF NumGe(value, Fin(t.good)) THEN "good"
    ELSE IF NumGe(value, Fin(t.warning)) THEN "warning" ELSE "critical"

StatusLower(value, t) ==
    IF NumLe(value, Fin(t.good)) THEN "good"
    ELSE IF NumLe(value, Fin(t.warning)) THEN "warning" ELSE "critical"

\* C16: every cell of a metric that defines thresholds carries a status,
\* the one the thresholds give its value in the metric's direction, and a
\* cell carries no status exactly when its metric defines no thresholds.
C16_ThresholdedMetricsHaveStatus ==
    compareMode
        => \A i \in TableIdx :
              LET metric == MetricOf(table[i].metric)
              IN  /\ (table[i].status = Null) <=> (metric.thresholds = Undefined)
                  /\ metric.id \in HigherBetter
                        => table[i].status = Some(StatusHigher(table[i].value, metric.thresholds[1]))
                  /\ metric.id \in LowerBetter
                        => table[i].status = Some(StatusLower(table[i].value, metric.thresholds[1]))

StatusRank(status) ==
    CASE status = "critical" -> 0
      [] status = "warning" -> 1
      [] status = "good" -> 2

\* values around each cutoff of a metric, zero and the two infinities
ValueInputs(metric) ==
    LET t == metric.thresholds[1]
    IN  {Fin(c + d) : c \in {t.good, t.warning, t.critical, 0}, d \in {-1, 0, 1}}
            \cup {NegInf, PosInf}

\* v2 >= v1 never lowers the status of a higher-better metric and never
\* raises the status of a lower-better one
Monotone(id, v1, s1, v2, s2) ==
    NumLe(v1, v2)
        => /\ id \in HigherBetter => StatusRank(s1[1]) <= StatusRank(s2[1])
           /\ id \in LowerBetter => StatusRank(s1[1]) >= StatusRank(s2[1])

StatusMonotoneOnInputs ==
    \A m \in 1..Len(METRICS_REGISTRY) :
        LET metric == METRICS_REGISTRY[m]
        IN  metric.id \in HigherBetter \cup LowerBetter
                => \A v1 \in ValueInputs(metric), v2 \in ValueInputs(metric) :
                      Monotone(metric.id, v1, getThresholdIcon(v1, metric),
                               v2, getThresholdIcon(v2, metric))

\* C17: for every thresholded metric with a direction and all values
\* v1 <= v2, the status of v2 is never worse than that of v1 when the metric
\* is higher-better and never better when it is lower-better: on the values
\* around the cutoffs, and between any two cells of a row of the table.
C17_StatusMonotone ==
    /\ StatusMonotoneOnInputs
    /\ compareMode
          => \A i \in TableIdx, j \in TableIdx :
                (table[i].metric = table[j].metric
                    /\ table[i].metric \in HigherBetter \cup LowerBetter)
                    => Monotone(table[i].metric, table[i].value, table[i].status,
                                table[j].value, table[j].status)

\* the table shows a higher-better row whose cells differ in value and in
\* status, and a lower-better row whose cells differ in value
C17_Witness ==
    /\ compareMode
    /\ \E i \in TableIdx, j \in TableIdx :
          /\ table[i].metric = "runway" /\ table[j].metric = "runway"
          /\ NumLt(table[i].value, table[j].value)
          /\ table[i].status # table[j].status
    /\ \E i \in TableIdx, j \in TableIdx :
          /\ table[i].metric = "churn" /\ table[j].metric = "churn"
          /\ NumLt(table[i].value, table[j].value)

\* C20: the compare table is a function of the store state: a render that
\* follows another on the same store state shows, in every cell the two
\* have in common, the same value, delta, p10, p90 and confidence.
C20_RenderDeterministic ==
    [][(compareMode /\ compareMode')
          => \A i \in TableIdx, j \in 1..Len(table') :
                (table[i].metric = table'[j].metric /\ table[i].column = table'[j].column)
                    => table'[j] = table[i]]_vars

\* the rows of the branches in the chart's data, in branch-list order
ChartRows == [i \in 1..Len(branches) |-> chart[1].data[i + 1]]

\* the row is first among the rows of extremal value: none has a value
\* beyond its, and none before it has its value
FirstMax(rows, i) ==
    /\ \A j \in 1..Len(rows) : NumLe(rows[j].value, rows[i].value)
    /\ \A j \in 1..(i - 1) : NumLt(rows[j].value, rows[i].value)

FirstMin(rows, i) ==
    /\ \A j \in 1..Len(rows) : NumGe(rows[j].value, rows[i].value)
    /\ \A j \in 1..(i - 1) : NumGt(rows[j].value, rows[i].value)

\* the sum of the deltas of the rows, added in any order
RECURSIVE SumOfDeltas(_, _)
SumOfDeltas(rows, idx) ==
    IF idx = {} THEN Fin(0)
    ELSE LET i == CHOOSE i \in idx : TRUE
         IN  NumAdd(rows[i].delta, SumOfDeltas(rows, idx \ {i}))

\* C18: in the visual comparison of a non-empty branch list, 'best' is the
\* first branch, in branch-list order, of maximum value (minimum for burn),
\* 'worst' the first of minimum value (maximum for burn), and the average
\* change is the sum of the branch deltas divided by the number of branches.
C18_Insights ==
    (visualMode /\ chart # Null)
        => LET rows == ChartRows
               c == chart[1]
           IN  /\ branches # <<>>
               /\ \E i \in 1..Len(rows) :
                     /\ c.best = rows[i]
                     /\ IF selectedMetric = "burn" THEN FirstMin(rows, i) ELSE FirstMax(rows, i)
               /\ \E i \in 1..Len(rows) :
                     /\ c.worst = rows[i]
                     /\ IF selectedMetric = "burn" THEN FirstMax(rows, i) ELSE FirstMin(rows, i)
               /\ c.averageChange.n = Len(branches)
               /\ c.averageChange.sum = SumOfDeltas(rows, 1..Len(rows))

\* the chart compares three branches, the last two of equal value and
\* better than the first: 'best' is the second, 'worst' the first
C18_Witness ==
    /\ visualMode /\ chart # Null
    /\ Len(branches) = 3
    /\ ChartRows[2].value = ChartRows[3].value
    /\ ChartRows[2].name # ChartRows[3].name
    /\ chart[1].best = ChartRows[2]
    /\ chart[1].worst = ChartRows[1]

\* C21: a branch with no nodes is compared as if its terminal node were
\* the baseline: in every row of the compare table its cell has the value
\* of the baseline's cell and delta 0, and in the visual comparison its row
\* has the value of the baseline's row and delta 0.
C21_EmptyBranchIsBaseline ==
    /\ compareMode
          => \A i \in TableIdx :
                (table[i].column >= 1 /\ branches[table[i].column].nodes = <<>>)
                    => /\ table[i].value = BaselineCellOf(i).value
                       /\ table[i].delta = Fin(0)
    /\ (visualMode /\ chart # Null)
          => \A b \in BranchIdx :
                branches[b].nodes = <<>>
                    => /\ ChartRows[b].value = chart[1].data[1].value
                       /\ ChartRows[b].delta = Fin(0)

\* C22: in every reachable state the baseline's runway is the value derived
\* from its other fields, calculateRunway(monthlyBurn, cashOnHand), also
\* after an updateBaseline that changes monthlyBurn or cashOnHand.
C22_BaselineRunwayDerived ==
    baseline.runway = calculateRunway(baseline.monthlyBurn, baseline.cashOnHand)

\* C23: node ids are unique: the node an addChessboardMove call creates
\* carries an id that no node created by an earlier call carries, in any
\* branch, also when the same move is appended twice without the clock
\* advancing.
C23_NodeIdsUnique ==
    [][(Called("addChessboardMove") /\ lastCall'.moveKnown /\ lastCall'.nodesBefore >= 0)
          => \A i \in BranchIdx :
                Len(branches'[i].nodes) = Len(branches[i].nodes) + 1
                    => LastOf(branches'[i].nodes)[1].id \notin NodeIdsOnBoard]_vars

\* after is before, before plus one appended element, or before minus its
\* last element
TailChange(before, after) ==
    \/ after = before
    \/ Len(after) = Len(before) + 1 /\ AllButLast(after) = before
    \/ before # <<>> /\ after = AllButLast(before)

\* C24: across every store transition each surviving branch's node
\* sequence changes only at the tail: it stays as it was, gains exactly one
\* node at the end, or loses its last node, and the nodes at retained
\* positions are the same in every field.  Branches keep their positions
\* unless branches are removed, and then keep their order.
C24_NodesChangeAtTailOnly ==
    [][IF Len(branches') >= Len(branches)
       THEN \A i \in BranchIdx :
               /\ branches'[i].id = branches[i].id
               /\ TailChange(branches[i].nodes, branches'[i].nodes)
       ELSE \A j \in 1..Len(branches') :
               \E i \in j..Len(branches) :
                   /\ branches'[j].id = branches[i].id
                   /\ TailChange(branches[i].nodes, branches'[j].nodes)]_vars

\* a branch that held two nodes has lost its last one and keeps its first
C24_Witness ==
    /\ lastCall.op = "removeBranchMove"
    /\ lastCall.nodesBefore = 2
    /\ \E i \in BranchIdx : Len(branches[i].nodes) = 1

\* the ids of the moves of a library
MoveIds(lib) == {lib[i].id : i \in 1..Len(lib)}

\* C25: the move library is keyed by unique id: the move an addCustomMove
\* call adds gets an id different from every id already in the library, and
\* looking its id up resolves that move, also when two custom moves are
\* defined without the clock advancing.
C25_CustomMoveIdsUnique ==
    [][Called("addCustomMove")
          => LET added == LastOf(moveLibrary')[1]
             IN  /\ added.id \notin MoveIds(moveLibrary)
                 /\ Find(moveLibrary', added.id) = Some(added)]_vars

\* C26: the visual comparison is well-formed for any number of branches,
\* zero included: showing it completes without raising, its data holds the
\* baseline row with delta 0, and the average change is a number (a sum
\* that is not NaN over a non-zero count).
C26_VisualWellFormed ==
    visualMode
        => /\ lastCall.outcome = "returned"
           /\ chart # Null
           /\ chart[1].data[1].id = <<"baseline">>
           /\ chart[1].data[1].delta = Fin(0)
           /\ chart[1].averageChange.n # 0
           /\ chart[1].averageChange.sum # NaN

\* the positions of the branches whose node sequence the step changes
ChangedBranches == {i \in BranchIdx : branches'[i].nodes # branches[i].nodes}

\* C27: addChessboardMove(b, m) and removeBranchMove(b) change the node
\* sequence of the one branch b addresses only: the branch list keeps its
\* length and the node sequences of all branches but that one stay as they
\* were, whatever addBranch and duplicateBranch calls came before.
C27_OnlyAddressedBranchChanges ==
    [][(Called("addChessboardMove") \/ Called("removeBranchMove"))
          => /\ Len(branches') = Len(branches)
             /\ Cardinality(ChangedBranches) <= 1]_vars

\* C28: every cell of the compare table that carries a variance band has
\* p10 <= value <= p90 (the band is kept in hundredths of the value's
\* unit), also for terminal states whose monthlyBurn or derived value is
\* zero or negative.
C28_BandBracketsValue ==
    compareMode
        => \A i \in TableIdx :
              table[i].p10 # Undefined
                  => /\ NumLe(table[i].p10[1], NumScale(table[i].value, 100))
                     /\ NumLe(NumScale(table[i].value, 100), table[i].p90[1])

\* C29: the selection never dangles: when selectBranch and selectNode are
\* only called with ids that exist at call time, selectedBranch is null or
\* the id of a branch in the store and selectedNode is null or the id of a
\* node of some branch, also after removeBranchMove, removeBranch and
\* resetChessboard.
C29_SelectionNeverDangles ==
    /\ selectedBranch = Null \/ selectedBranch \in BranchIdsInStore
    /\ selectedNode = Null \/ selectedNode \in NodeIdsOnBoard

\* C30: the two store implementations agree: given the same sequence of
\* addBranch, addChessboardMove, removeBranchMove, duplicateBranch,
\* removeBranch and resetChessboard calls over their common moves, from
\* the initial baseline, useDemoStore and useChessboardStore hold branch
\* lists of equal length whose branches hold equally many nodes, with
\* equal monthlyBurn and equal runway at every position.
C30_StoresAgree ==
    branchesCS # Undefined
        => /\ Len(branchesCS[1]) = Len(branches)
           /\ \A i \in BranchIdx :
                 /\ Len(branchesCS[1][i].nodes) = Len(branches[i].nodes)
                 /\ \A j \in 1..Len(branches[i].nodes) :
                       /\ branchesCS[1][i].nodes[j].monthlyBurn = branches[i].nodes[j].monthlyBurn
                       /\ branchesCS[1][i].nodes[j].runway = branches[i].nodes[j].runway

====
